---- MODULE Spec2Model ----
(***************************************************************************)
(* A model of the uhd-usrp host-side wrapper: the owning native handle     *)
(* (ffi.rs, OwnedHandle), the string exchange buffers (ffi.rs, FfiString   *)
(* and FfiStringVec), receive metadata (usrp/metadata.rs) and the device's *)
(* channel lookup (usrp/device.rs).  The native driver is the environment: *)
(* every native call returns a status and writes its out-parameters, both  *)
(* drawn from small sets.                                                  *)
(***************************************************************************)
EXTENDS Integers, Sequences, FiniteSets

VARIABLES
    handles,    \* slot -> one constructor call and the handle it produced
    hlast,      \* the last accessor call on a live handle and what it returned
    rxCount,    \* the device's current number of Rx channels
    txCount,    \* the device's current number of Tx channels
    chanCall,   \* the last Usrp::channel call and its result
    fsBuf,      \* FfiString::s, the byte buffer (empty before with_capacity)
    fsText,     \* the text the last native write left as a C string, if any
    fsOut,      \* the result of the last FfiString call
    vecH,       \* FfiStringVec::handle, the owning handle of the native vector
    vecItems,   \* the strings the native vector holds
    vecPushed,  \* the values whose push() returned, in order
    vecOut,     \* the last FfiStringVec call and its result
    metaH,      \* RxMetadata::handle
    meta,       \* the native receive metadata behind the handle
    metaOut     \* the last RxMetadata call and its result

vars == <<handles, hlast, rxCount, txCount, chanCall, fsBuf, fsText, fsOut,
          vecH, vecItems, vecPushed, vecOut, metaH, meta, metaOut>>

handleVars == <<handles, hlast>>
chanVars == <<rxCount, txCount, chanCall>>
strVars == <<fsBuf, fsText, fsOut>>
vecVars == <<vecH, vecItems, vecPushed, vecOut>>
metaVars == <<metaH, meta, metaOut>>

(***************************************************************************)
(* Bounds of the model.                                                    *)
(***************************************************************************)
MaxHandles == 2
MaxPtr == 2
MaxChannels == 2
MaxCap == 3
MaxPush == 2

Slots == 1..MaxHandles
\* Native addresses; 0 is the null pointer.
Ptrs == 0..MaxPtr
\* Native status codes a call may return: 0 is success, the others are
\* failures (an invalid device, an index error, an unknown error).
Statuses == {0, 1, 10, 100}

(***************************************************************************)
(* Errors and results.                                                     *)
(***************************************************************************)
Ok(v) == [tag |-> "Ok", val |-> v]
Err(e) == [tag |-> "Err", val |-> e]
Panic(msg) == [tag |-> "Panic", val |-> msg]
Unit == "unit"
Some(v) == [tag |-> "Some", val |-> v]
None == [tag |-> "None", val |-> "none"]

\* The host-side error a failing native status is mapped to.
UhdErrorOfStatus(st) ==
    CASE st = 1 -> "InvalidDevice"
      [] st = 10 -> "Index"
      [] OTHER -> "Unknown"

\* try_uhd!(status): success for status 0, the mapped error otherwise.
TryUhd(st) == IF st = 0 THEN Ok(Unit) ELSE Err(UhdErrorOfStatus(st))

IsNull(p) == p = 0

(***************************************************************************)
(* OwnedHandle.                                                            *)
(***************************************************************************)
\* No call made yet.
NoRet == [tag |-> "NoCall", val |-> "none"]

NoSlot ==
    [ctor |-> "none", outcome |-> "none", err |-> "none", handle |-> 0,
     live |-> FALSE, natStatus |-> 0, natPtr |-> 0,
     allocCalls |-> 0, fromPtrCalls |-> 0, freeCalls |-> 0, freedPtr |-> 0]

NoCall == [op |-> "none", slot |-> 0, ret |-> NoRet]

\* The outcome of a constructor that failed with error e: no wrapper.
Failed(rec, e) == [rec EXCEPT !.outcome = "Err", !.err = e]
\* The outcome of a constructor that panicked: no wrapper.
Panicked(rec, msg) == [rec EXCEPT !.outcome = "Panic", !.err = msg]
\* Self { handle, free }
Wrapped(rec, p) == [rec EXCEPT !.outcome = "Ok", !.handle = p, !.live = TRUE]

\* A mutant of OwnedHandleNew: the null check is missing.
OwnedHandleNewNoNullCheck(st, p) ==
    LET rec == [NoSlot EXCEPT !.ctor = "new", !.natStatus = st, !.natPtr = p,
                              !.allocCalls = 1]
    IN IF TryUhd(st).tag = "Err" THEN Failed(rec, TryUhd(st).val)
       ELSE Wrapped(rec, p)

\* OwnedHandle::new(alloc, free): alloc returns status st, and p is what the
\* handle holds after a successful call: the pointer alloc wrote, or, the
\* handle being read uninitialised when alloc wrote nothing, any value.
OwnedHandleNew(st, p) ==
    LET rec == [NoSlot EXCEPT !.ctor = "new", !.natStatus = st, !.natPtr = p,
                              !.allocCalls = 1]
    IN IF TryUhd(st).tag = "Err" THEN Failed(rec, TryUhd(st).val)
       ELSE IF IsNull(p) THEN Failed(rec, "Unknown")
       ELSE Wrapped(rec, p)

\* A mutant of OwnedHandleFromPtr: a null pointer is adopted.
OwnedHandleFromPtrNoCheck(rec, p) ==
    Wrapped([rec EXCEPT !.fromPtrCalls = @ + 1], p)

\* OwnedHandle::from_ptr(handle, free), continuing the constructor rec.
OwnedHandleFromPtr(rec, p) ==
    LET r == [rec EXCEPT !.fromPtrCalls = @ + 1]
    IN IF IsNull(p) THEN Panicked(r, "handle is null") ELSE Wrapped(r, p)

\* Usrp::open_with_args(args): the handle starts null, uhd_usrp_make returns
\* st and, when it writes the handle, leaves p in it.
UsrpOpenWithArgs(argsHasNul, st, p) ==
    LET rec == [NoSlot EXCEPT !.ctor = "open_with_args"]
        made == [rec EXCEPT !.natStatus = st, !.natPtr = p, !.allocCalls = 1]
    IN IF argsHasNul THEN Panicked(rec, "CString::new")
       ELSE IF TryUhd(st).tag = "Err" THEN Failed(made, TryUhd(st).val)
       ELSE OwnedHandleFromPtr(made, p)

\* TxMetadata::to_handle(): the handle starts null, uhd_tx_metadata_make
\* returns st and leaves p in the handle.
TxMetadataToHandle(st, p) ==
    LET made == [NoSlot EXCEPT !.ctor = "to_handle", !.natStatus = st,
                               !.natPtr = p, !.allocCalls = 1]
    IN IF TryUhd(st).tag = "Err" THEN Failed(made, TryUhd(st).val)
       ELSE OwnedHandleFromPtr(made, p)

New(h) ==
    /\ handles[h].ctor = "none"
    /\ \E st \in Statuses, p \in Ptrs :
          handles' = [handles EXCEPT ![h] = OwnedHandleNew(st, p)]
    /\ UNCHANGED <<hlast, chanVars, strVars, vecVars, metaVars>>

FromPtr(h) ==
    /\ handles[h].ctor = "none"
    /\ \E p \in Ptrs :
          handles' = [handles EXCEPT ![h] =
                         OwnedHandleFromPtr([NoSlot EXCEPT !.ctor = "from_ptr",
                                                           !.natPtr = p], p)]
    /\ UNCHANGED <<hlast, chanVars, strVars, vecVars, metaVars>>

OpenWithArgs(h) ==
    /\ handles[h].ctor = "none"
    /\ \E argsHasNul \in BOOLEAN, st \in Statuses, p \in Ptrs :
          handles' = [handles EXCEPT ![h] = UsrpOpenWithArgs(argsHasNul, st, p)]
    /\ UNCHANGED <<hlast, chanVars, strVars, vecVars, metaVars>>

ToHandle(h) ==
    /\ handles[h].ctor = "none"
    /\ \E st \in Statuses, p \in Ptrs :
          handles' = [handles EXCEPT ![h] = TxMetadataToHandle(st, p)]
    /\ UNCHANGED <<hlast, chanVars, strVars, vecVars, metaVars>>

\* as_ptr / as_mut_ptr: the pointer itself.
AsPtr(h) ==
    /\ handles[h].live
    /\ \E op \in {"as_ptr", "as_mut_ptr"} :
          hlast' = [op |-> op, slot |-> h, ret |-> Ok(handles[h].handle)]
    /\ UNCHANGED <<handles, chanVars, strVars, vecVars, metaVars>>

\* as_mut_mut_ptr: the address of the handle field of this wrapper.
AsMutMutPtr(h) ==
    /\ handles[h].live
    /\ hlast' = [op |-> "as_mut_mut_ptr", slot |-> h, ret |-> Ok(<<"field", h>>)]
    /\ UNCHANGED <<handles, chanVars, strVars, vecVars, metaVars>>

\* handle.as_ref().expect("handle is null"), and as_mut() likewise.
DerefResult(p) == IF IsNull(p) THEN Panic("handle is null") ELSE Ok(p)

Deref(h) ==
    /\ handles[h].live
    /\ \E op \in {"deref", "deref_mut"} :
          hlast' = [op |-> op, slot |-> h, ret |-> DerefResult(handles[h].handle)]
    /\ UNCHANGED <<handles, chanVars, strVars, vecVars, metaVars>>

\* A mutant of Drop: the wrapper goes away without calling free.
DropLeak(h) ==
    /\ handles[h].live
    /\ handles' = [handles EXCEPT ![h].live = FALSE]
    /\ UNCHANGED <<hlast, chanVars, strVars, vecVars, metaVars>>

\* Drop: (self.free)(addr_of_mut!(self.handle)); free's status is ignored.
Drop(h) ==
    /\ handles[h].live
    /\ handles' = [handles EXCEPT ![h].live = FALSE,
                                  ![h].freeCalls = @ + 1,
                                  ![h].freedPtr = handles[h].handle]
    /\ UNCHANGED <<hlast, chanVars, strVars, vecVars, metaVars>>

NextHandle ==
    \E h \in Slots :
        \/ New(h)
        \/ FromPtr(h)
        \/ OpenWithArgs(h)
        \/ ToHandle(h)
        \/ AsPtr(h)
        \/ AsMutMutPtr(h)
        \/ Deref(h)
        \/ Drop(h)

(***************************************************************************)
(* Usrp::channel.                                                          *)
(***************************************************************************)
Directions == {"Rx", "Tx"}
Channel(dir, i) == [dir |-> dir, index |-> i]
\* Channel::index()
ChannelIndex(ch) == ch.index
\* ChannelConfig::new(usrp, channel)
ChannelConfigNew(ch) == [config |-> ch]

NoChanCall ==
    [channel |-> Channel("Rx", 0), called |-> FALSE, status |-> 0,
     rxAt |-> 0, txAt |-> 0, ret |-> NoRet]

\* rx_channels(): uhd_usrp_get_rx_num_channels returns st and, on success,
\* has written the device's Rx channel count.
RxChannels(st) == IF TryUhd(st).tag = "Err" THEN TryUhd(st) ELSE Ok(rxCount)
\* tx_channels()
TxChannels(st) == IF TryUhd(st).tag = "Err" THEN TryUhd(st) ELSE Ok(txCount)

\* A mutant of UsrpChannel: the index is checked against the Rx count for
\* either direction.
UsrpChannelRxOnly(ch, st) ==
    LET n == RxChannels(st)
    IN IF n.tag = "Err" THEN n
       ELSE IF ChannelIndex(ch) < n.val THEN Ok(ChannelConfigNew(ch))
       ELSE Err("Index")

\* Usrp::channel(channel), the count query returning status st.
UsrpChannel(ch, st) ==
    LET n == IF ch.dir = "Rx" THEN RxChannels(st) ELSE TxChannels(st)
    IN IF n.tag = "Err" THEN n
       ELSE IF ChannelIndex(ch) < n.val THEN Ok(ChannelConfigNew(ch))
       ELSE Err("Index")

\* The device is reconfigured (a subdevice specification is set): its channel
\* counts change.
Reconfigure ==
    /\ \E r \in 0..MaxChannels, t \in 0..MaxChannels :
          /\ <<r, t>> # <<rxCount, txCount>>
          /\ rxCount' = r
          /\ txCount' = t
    /\ UNCHANGED <<chanCall, handleVars, strVars, vecVars, metaVars>>

ChannelLookup ==
    /\ \E dir \in Directions, i \in 0..(MaxChannels + 1), st \in Statuses :
          chanCall' = [channel |-> Channel(dir, i), called |-> TRUE,
                       status |-> st, rxAt |-> rxCount, txAt |-> txCount,
                       ret |-> UsrpChannel(Channel(dir, i), st)]
    /\ UNCHANGED <<rxCount, txCount, handleVars, strVars, vecVars, metaVars>>

NextChan == Reconfigure \/ ChannelLookup

(***************************************************************************)
(* FfiString.                                                              *)
(***************************************************************************)
\* The bytes the model draws buffer contents from: NUL, 'A', the two bytes
\* of U+00E9 (0xC3 0xA9) and 0xFF, which no UTF-8 text contains.
ByteSamples == {0, 65, 195, 169, 255}

NoText == [written |-> FALSE, text |-> <<>>]
TextOf(s) == [written |-> TRUE, text |-> s]

\* All sequences over S of length lo..hi.
SeqsOf(S, lo, hi) == UNION {[1..n -> S] : n \in lo..hi}

\* core::str: the length of the UTF-8 sequence a first byte announces.
Utf8CharWidth(b) ==
    IF b < 128 THEN 1
    ELSE IF b >= 194 /\ b <= 223 THEN 2
    ELSE IF b >= 224 /\ b <= 239 THEN 3
    ELSE IF b >= 240 /\ b <= 244 THEN 4
    ELSE 0

\* A continuation byte: (b & 192) = 128.
IsCont(b) == b >= 128 /\ b <= 191
\* safe_get: the byte at i, or 0 past the end.
SafeGet(s, i) == IF i <= Len(s) THEN s[i] ELSE 0

\* The second byte a three-byte sequence starting with b admits.
Second3(b, c) ==
    \/ b = 224 /\ c >= 160 /\ c <= 191
    \/ b >= 225 /\ b <= 236 /\ c >= 128 /\ c <= 191
    \/ b = 237 /\ c >= 128 /\ c <= 159
    \/ b >= 238 /\ b <= 239 /\ c >= 128 /\ c <= 191
\* The second byte a four-byte sequence starting with b admits.
Second4(b, c) ==
    \/ b = 240 /\ c >= 144 /\ c <= 191
    \/ b >= 241 /\ b <= 243 /\ c >= 128 /\ c <= 191
    \/ b = 244 /\ c >= 128 /\ c <= 143

\* Utf8Chunks: the sequence starting at s[i]: whether it is valid, and how
\* many bytes it takes (for an invalid one, the bytes replaced together).
Utf8Chunk(s, i) ==
    LET b == s[i]
        w == Utf8CharWidth(b)
    IN CASE w = 1 -> [valid |-> TRUE, len |-> 1]
         [] w = 2 -> IF IsCont(SafeGet(s, i + 1))
                     THEN [valid |-> TRUE, len |-> 2]
                     ELSE [valid |-> FALSE, len |-> 1]
         [] w = 3 -> IF ~Second3(b, SafeGet(s, i + 1))
                     THEN [valid |-> FALSE, len |-> 1]
                     ELSE IF ~IsCont(SafeGet(s, i + 2))
                     THEN [valid |-> FALSE, len |-> 2]
                     ELSE [valid |-> TRUE, len |-> 3]
         [] w = 4 -> IF ~Second4(b, SafeGet(s, i + 1))
                     THEN [valid |-> FALSE, len |-> 1]
                     ELSE IF ~IsCont(SafeGet(s, i + 2))
                     THEN [valid |-> FALSE, len |-> 2]
                     ELSE IF ~IsCont(SafeGet(s, i + 3))
                     THEN [valid |-> FALSE, len |-> 3]
                     ELSE [valid |-> TRUE, len |-> 4]
         [] OTHER -> [valid |-> FALSE, len |-> 1]

\* U+FFFD REPLACEMENT CHARACTER, encoded.
Replacement == <<239, 191, 189>>

\* The first index from i on that holds a non-ASCII byte, or Len(s) + 1: the
\* run of ASCII bytes before it is valid as it stands.
NextNonAscii(s, i) ==
    IF \E j \in i..Len(s) : s[j] >= 128
    THEN CHOOSE j \in i..Len(s) : s[j] >= 128 /\ \A k \in i..(j - 1) : s[k] < 128
    ELSE Len(s) + 1

RECURSIVE LossyFrom(_, _)
LossyFrom(s, i) ==
    IF i > Len(s) THEN <<>>
    ELSE IF NextNonAscii(s, i) > i
    THEN SubSeq(s, i, NextNonAscii(s, i) - 1) \o LossyFrom(s, NextNonAscii(s, i))
    ELSE LET c == Utf8Chunk(s, i)
         IN (IF c.valid THEN SubSeq(s, i, i + c.len - 1) ELSE Replacement)
            \o LossyFrom(s, i + c.len)

\* CStr::to_string_lossy().into_owned(): the text, every invalid sequence
\* replaced by U+FFFD.
ToStringLossy(s) == LossyFrom(s, 1)

RECURSIVE ValidFrom(_, _)
ValidFrom(s, i) ==
    IF i > Len(s) THEN TRUE
    ELSE IF NextNonAscii(s, i) > i THEN ValidFrom(s, NextNonAscii(s, i))
    ELSE Utf8Chunk(s, i).valid /\ ValidFrom(s, i + Utf8Chunk(s, i).len)

\* Whether the bytes are UTF-8 text (what a str holds).
Utf8Valid(s) == ValidFrom(s, 1)

HasNul(s) == \E i \in 1..Len(s) : s[i] = 0
FirstNul(s) == CHOOSE i \in 1..Len(s) : s[i] = 0 /\ \A j \in 1..(i - 1) : s[j] # 0
LastNul(s) == CHOOSE i \in 1..Len(s) : s[i] = 0 /\ \A j \in (i + 1)..Len(s) : s[j] # 0

\* A mutant of FromBytesUntilNul: the bytes up to the last NUL of the buffer.
FromBytesUntilLastNul(s) ==
    IF HasNul(s) THEN Ok(SubSeq(s, 1, LastNul(s) - 1)) ELSE Err("FromBytesUntilNulError")

\* CStr::from_bytes_until_nul: the bytes before the first NUL, or an error
\* when the buffer holds none.
FromBytesUntilNul(s) ==
    IF HasNul(s) THEN Ok(SubSeq(s, 1, FirstNul(s) - 1)) ELSE Err("FromBytesUntilNulError")

\* FfiString::to_string()
FfiStringToString(s) ==
    LET c == FromBytesUntilNul(s)
    IN IF c.tag = "Err" THEN Err("Unknown") ELSE Ok(ToStringLossy(c.val))

\* FfiString::max_chars(): the length of the buffer.
MaxChars(s) == Len(s)

\* A native write of exactly a C string: text without NUL, then one NUL.
IsCString(w) ==
    /\ Len(w) >= 1
    /\ w[Len(w)] = 0
    /\ ~HasNul(SubSeq(w, 1, Len(w) - 1))
    /\ Utf8Valid(SubSeq(w, 1, Len(w) - 1))

\* FfiString::with_capacity(len): assert!(len != 0), then len zero bytes.
WithCapacity ==
    /\ fsBuf = <<>>
    /\ fsOut.tag # "Panic"
    /\ \E len \in 0..MaxCap :
          IF len = 0
          THEN fsOut' = Panic("assertion failed: len != 0") /\ UNCHANGED fsBuf
          ELSE fsBuf' = [i \in 1..len |-> 0] /\ fsOut' = NoRet
    /\ fsText' = NoText
    /\ UNCHANGED <<handleVars, chanVars, vecVars, metaVars>>

\* A native call given as_mut_ptr() and max_chars() writes w at the start of
\* the buffer, at most max_chars() bytes.
NativeWrite ==
    /\ fsBuf # <<>>
    /\ \E w \in SeqsOf(ByteSamples, 1, MaxChars(fsBuf)) :
          /\ fsBuf' = w \o SubSeq(fsBuf, Len(w) + 1, Len(fsBuf))
          /\ fsText' = IF IsCString(w) THEN TextOf(SubSeq(w, 1, Len(w) - 1))
                       ELSE NoText
    /\ fsOut' = NoRet
    /\ UNCHANGED <<handleVars, chanVars, vecVars, metaVars>>

\* to_string() is called on the buffer.
CallToString ==
    /\ fsBuf # <<>>
    /\ fsOut' = FfiStringToString(fsBuf)
    /\ UNCHANGED <<fsBuf, fsText, handleVars, chanVars, vecVars, metaVars>>

\* The FfiString goes out of scope.
DropString ==
    /\ fsBuf # <<>>
    /\ fsBuf' = <<>>
    /\ fsText' = NoText
    /\ fsOut' = NoRet
    /\ UNCHANGED <<handleVars, chanVars, vecVars, metaVars>>

NextStr == WithCapacity \/ NativeWrite \/ CallToString \/ DropString

(***************************************************************************)
(* FfiStringVec.                                                           *)
(***************************************************************************)
\* The capacity of the buffer get() receives a string in.
GetCapacity == 128

\* n bytes 'A'.
Long(n) == [i \in 1..n |-> 65]

\* The texts pushed: short ones, one that just fits the buffer of get() with
\* its terminator, one that does not, and one with a NUL inside.
TextSamples ==
    {<<65>>, <<195, 169>>, Long(GetCapacity - 1), Long(GetCapacity), <<65, 0, 66>>}

\* nativeOk: whether every native call the operation made on an element or
\* on the size of the vector reported success.
NoVecCall == [op |-> "none", index |-> 0, nativeOk |-> TRUE, ret |-> NoRet]

\* What the native at() leaves in a zeroed buffer of cap bytes for the string
\* v: with "strncpy" the first cap bytes of v, unterminated when v has cap
\* bytes or more; with "terminated" at most cap - 1 bytes of v and a NUL.
NativeCopy(v, cap, mode) ==
    LET n == IF Len(v) < cap THEN Len(v)
             ELSE IF mode = "strncpy" THEN cap ELSE cap - 1
    IN [i \in 1..cap |-> IF i <= n THEN v[i] ELSE 0]

\* uhd_string_vector_at(handle, index, buf, cap): the status it returns and
\* the buffer it leaves.  An index past the end is an error of the native
\* call; st is the status of a call whose index is within the vector.
NativeAt(items, index, cap, st, mode) ==
    IF index >= Len(items) THEN [status |-> 70, buf |-> [i \in 1..cap |-> 0]]
    ELSE IF st # 0 THEN [status |-> st, buf |-> [i \in 1..cap |-> 0]]
    ELSE [status |-> 0, buf |-> NativeCopy(items[index + 1], cap, mode)]

\* Result::ok(): Some for Ok, None for Err.
OkOf(r) == IF r.tag = "Ok" THEN Some(r.val) ELSE None

\* FfiStringVec::len(): value starts 0, the size query's status is dropped.
FfiStringVecLen(items, st) == IF st = 0 THEN Len(items) ELSE 0

\* FfiStringVec::get(index)
FfiStringVecGet(items, index, st, mode) ==
    LET r == NativeAt(items, index, GetCapacity, st, mode)
    IN IF TryUhd(r.status).tag = "Err" THEN None
       ELSE OkOf(FfiStringToString(r.buf))

RECURSIVE CollectFrom(_, _, _, _, _)
\* The loop of to_vec from index i: get(i).unwrap() pushed onto the result;
\* the native call of get(failAt - 1) fails with status 1.
CollectFrom(items, i, n, failAt, mode) ==
    IF i >= n THEN Ok(<<>>)
    ELSE LET g == FfiStringVecGet(items, i, IF failAt = i + 1 THEN 1 ELSE 0, mode)
             rest == CollectFrom(items, i + 1, n, failAt, mode)
         IN IF g.tag = "None" THEN Panic("unwrap on None")
            ELSE IF rest.tag = "Panic" THEN rest
            ELSE Ok(<<g.val>> \o rest.val)

\* FfiStringVec::to_vec(), its second len() returning n.
FfiStringVecToVec(items, n, failAt, mode) == CollectFrom(items, 0, n, failAt, mode)

\* FfiStringVec::new(): OwnedHandle::new(make, free).unwrap()
VecNew ==
    /\ vecH.ctor = "none"
    /\ \E st \in Statuses, p \in Ptrs :
          LET r == OwnedHandleNew(st, p)
          IN /\ vecH' = r
             /\ vecOut' = [op |-> "new", index |-> 0, nativeOk |-> st = 0,
                           ret |-> IF r.outcome = "Ok" THEN Ok(Unit)
                                   ELSE Panic("unwrap on Err")]
    /\ vecItems' = <<>>
    /\ vecPushed' = <<>>
    /\ UNCHANGED <<handleVars, chanVars, strVars, metaVars>>

\* FfiStringVec::push(value): CString::new(value).unwrap(), then the native
\* push_back, whose status st is dropped.
VecPush ==
    /\ vecH.live
    /\ Len(vecPushed) < MaxPush
    /\ \E value \in TextSamples, st \in Statuses :
          IF HasNul(value)
          THEN /\ vecOut' = [op |-> "push", index |-> 0, nativeOk |-> TRUE,
                            ret |-> Panic("CString::new")]
               /\ UNCHANGED <<vecItems, vecPushed>>
          ELSE /\ vecItems' = IF st = 0 THEN Append(vecItems, value) ELSE vecItems
               /\ vecPushed' = Append(vecPushed, value)
               /\ vecOut' = [op |-> "push", index |-> 0, nativeOk |-> st = 0,
                            ret |-> Ok(Unit)]
    /\ UNCHANGED <<vecH, handleVars, chanVars, strVars, metaVars>>

VecLen ==
    /\ vecH.live
    /\ \E st \in Statuses :
          vecOut' = [op |-> "len", index |-> 0, nativeOk |-> st = 0,
                     ret |-> Ok(FfiStringVecLen(vecItems, st))]
    /\ UNCHANGED <<vecH, vecItems, vecPushed, handleVars, chanVars, strVars, metaVars>>

VecGet ==
    /\ vecH.live
    /\ \E index \in 0..MaxPush, st \in Statuses, mode \in {"strncpy", "terminated"} :
          vecOut' = [op |-> "get", index |-> index, nativeOk |-> st = 0,
                     ret |-> FfiStringVecGet(vecItems, index, st, mode)]
    /\ UNCHANGED <<vecH, vecItems, vecPushed, handleVars, chanVars, strVars, metaVars>>

\* to_vec(): len() for the capacity, len() again for the range, then the loop.
VecToVec ==
    /\ vecH.live
    /\ \E st1 \in Statuses, st2 \in Statuses, failAt \in 0..MaxPush,
          mode \in {"strncpy", "terminated"} :
          vecOut' = [op |-> "to_vec", index |-> 0,
                     nativeOk |-> st1 = 0 /\ st2 = 0 /\ failAt = 0,
                     ret |-> FfiStringVecToVec(vecItems, FfiStringVecLen(vecItems, st2),
                                               failAt, mode)]
    /\ UNCHANGED <<vecH, vecItems, vecPushed, handleVars, chanVars, strVars, metaVars>>

\* The FfiStringVec goes out of scope: its handle is dropped, the native
\* vector freed.
VecDrop ==
    /\ vecH.live
    /\ vecH' = NoSlot
    /\ vecItems' = <<>>
    /\ vecPushed' = <<>>
    /\ vecOut' = NoVecCall
    /\ UNCHANGED <<handleVars, chanVars, strVars, metaVars>>

NextVec == VecNew \/ VecPush \/ VecLen \/ VecGet \/ VecToVec \/ VecDrop

(***************************************************************************)
(* RxMetadata.                                                             *)
(***************************************************************************)
\* The largest native error code value the model draws.
MaxCode == 16
\* The largest full-seconds value a TimeSpec holds, standing for i64::MAX.
TimeMax == 1000

\* A native f64: a finite number of quarter seconds, or a non-finite value.
Finite(q) == [kind |-> "finite", q |-> q]
NaN == [kind |-> "nan", q |-> 0]
Infinity == [kind |-> "inf", q |-> 0]

FullSamples == {0, TimeMax}
FracSamples == {Finite(0), Finite(2), Finite(6), NaN, Infinity}

NoMeta == [code |-> 0, has |-> FALSE, full |-> 0, frac |-> Finite(0)]
NoMetaCall == [op |-> "none", st1 |-> 0, st2 |-> 0, at |-> NoMeta, ret |-> NoRet]

\* RxErrorcode::try_from_primitive: the variant of a native code, or an
\* error for a code no variant has.
TryFromPrimitive(code) ==
    CASE code = 0 -> Ok("None")
      [] code = 1 -> Ok("Timeout")
      [] code = 2 -> Ok("LateCommand")
      [] code = 4 -> Ok("BrokenChain")
      [] code = 8 -> Ok("Overflow")
      [] code = 12 -> Ok("Alignment")
      [] code = 15 -> Ok("BadPacket")
      [] OTHER -> Err("TryFromPrimitiveError")

\* RxMetadata::error_code(), the native getter returning status st.
RxMetadataErrorCode(m, st) ==
    IF TryUhd(st).tag = "Err" THEN TryUhd(st)
    ELSE IF TryFromPrimitive(m.code).tag = "Err" THEN Err("Unknown")
    ELSE TryFromPrimitive(m.code)

\* Whether raw components make no TimeSpec: a non-finite fraction, or full
\* seconds that leave the representable range once the fraction's whole
\* seconds are carried.
Malformed(full, frac) ==
    \/ frac.kind # "finite"
    \/ full + (frac.q \div 4) > TimeMax
    \/ full + (frac.q \div 4) < -TimeMax - 1

\* TimeSpec::try_from_parts(full_secs, frac_secs): None for malformed
\* components, else the time with the fraction normalised into [0, 1).
TryFromParts(full, frac) ==
    IF Malformed(full, frac) THEN None
    ELSE Some([full_secs |-> full + (frac.q \div 4), frac_quarters |-> frac.q % 4])

\* RxMetadata::time_spec(): the native has_time_spec getter returns st1, the
\* native time_spec getter st2.
RxMetadataTimeSpec(m, st1, st2) ==
    IF TryUhd(st1).tag = "Err" THEN TryUhd(st1)
    ELSE IF ~m.has THEN Ok(None)
    ELSE IF TryUhd(st2).tag = "Err" THEN TryUhd(st2)
    ELSE Ok(TryFromParts(m.full, m.frac))

\* RxMetadata::new(): OwnedHandle::new(make, free)?
MetaNew ==
    /\ metaH.ctor = "none"
    /\ \E st \in Statuses, p \in Ptrs : metaH' = OwnedHandleNew(st, p)
    /\ meta' = NoMeta
    /\ metaOut' = NoMetaCall
    /\ UNCHANGED <<handleVars, chanVars, strVars, vecVars>>

\* A receive fills the native metadata through handle_mut().
MetaFill ==
    /\ metaH.live
    /\ meta' \in [code : 0..MaxCode, has : BOOLEAN, full : FullSamples, frac : FracSamples]
    /\ metaOut' = NoMetaCall
    /\ UNCHANGED <<metaH, handleVars, chanVars, strVars, vecVars>>

MetaErrorCode ==
    /\ metaH.live
    /\ \E st \in Statuses :
          metaOut' = [op |-> "error_code", st1 |-> st, st2 |-> 0, at |-> meta,
                      ret |-> RxMetadataErrorCode(meta, st)]
    /\ UNCHANGED <<metaH, meta, handleVars, chanVars, strVars, vecVars>>

MetaTimeSpec ==
    /\ metaH.live
    /\ \E st1 \in Statuses, st2 \in Statuses :
          metaOut' = [op |-> "time_spec", st1 |-> st1, st2 |-> st2, at |-> meta,
                      ret |-> RxMetadataTimeSpec(meta, st1, st2)]
    /\ UNCHANGED <<metaH, meta, handleVars, chanVars, strVars, vecVars>>

\* The RxMetadata goes out of scope.
MetaDrop ==
    /\ metaH.ctor # "none"
    /\ metaH' = NoSlot
    /\ meta' = NoMeta
    /\ metaOut' = NoMetaCall
    /\ UNCHANGED <<handleVars, chanVars, strVars, vecVars>>

NextMeta == MetaNew \/ MetaFill \/ MetaErrorCode \/ MetaTimeSpec \/ MetaDrop

(***************************************************************************)
(* Specifications: one per component, the other components at rest.        *)
(***************************************************************************)
\* No handle constructed, a device just opened with one channel each way, no
\* string buffer allocated.
Init ==
    /\ handles = [h \in Slots |-> NoSlot]
    /\ hlast = NoCall
    /\ rxCount = 1
    /\ txCount = 1
    /\ chanCall = NoChanCall
    /\ fsBuf = <<>>
    /\ fsText = NoText
    /\ fsOut = NoRet
    /\ vecH = NoSlot
    /\ vecItems = <<>>
    /\ vecPushed = <<>>
    /\ vecOut = NoVecCall
    /\ metaH = NoSlot
    /\ meta = NoMeta
    /\ metaOut = NoMetaCall

SpecHandle == Init /\ [][NextHandle]_vars
SpecChan == Init /\ [][NextChan]_vars
SpecStr == Init /\ [][NextStr]_vars
SpecVec == Init /\ [][NextVec]_vars
SpecMeta == Init /\ [][NextMeta]_vars

(***************************************************************************)
(* Claims about OwnedHandle.                                               *)
(***************************************************************************)
\* C1: OwnedHandle::new invokes alloc exactly once; when alloc reported
\* success and wrote a non-null pointer, an owning handle around that pointer
\* is returned, free has not been invoked while the handle lives and has been
\* invoked exactly once, on that pointer, once it is dropped; when alloc
\* reported a failure or wrote null, an error is returned, no handle exists
\* and free is never invoked.
C1_NewAllocOnceFreeOnce ==
    \A h \in Slots :
        handles[h].ctor = "new" =>
            LET s == handles[h] IN
            /\ s.allocCalls = 1
            /\ (s.natStatus = 0 /\ ~IsNull(s.natPtr)) =>
                   /\ s.outcome = "Ok"
                   /\ s.handle = s.natPtr
                   /\ s.live => s.freeCalls = 0
                   /\ ~s.live => (s.freeCalls = 1 /\ s.freedPtr = s.natPtr)
            /\ (s.natStatus # 0 \/ IsNull(s.natPtr)) =>
                   /\ s.outcome = "Err"
                   /\ s.err = (IF s.natStatus # 0
                               THEN UhdErrorOfStatus(s.natStatus) ELSE "Unknown")
                   /\ ~s.live
                   /\ s.freeCalls = 0

\* C1 witness: one handle made by new has been dropped and freed, and
\* another call of new failed on a null pointer that alloc reported as success.
C1_Witness ==
    \E h, g \in Slots :
        /\ handles[h].ctor = "new" /\ handles[h].outcome = "Ok"
        /\ ~handles[h].live /\ handles[h].freeCalls = 1
        /\ handles[g].ctor = "new" /\ handles[g].outcome = "Err"
        /\ handles[g].natStatus = 0

\* C2: a null pointer handed to from_ptr (directly, or by open_with_args and
\* to_handle after a successful native make) panics: no wrapper exists around
\* a null pointer and free is never invoked for it; and when the native make
\* reports a failure, from_ptr is not reached, an error is returned and free
\* is never invoked.
C2_NullAdoptionRejected ==
    \A h \in Slots :
        handles[h].ctor \in {"from_ptr", "open_with_args", "to_handle"} =>
            LET s == handles[h] IN
            /\ (s.fromPtrCalls = 1 /\ IsNull(s.natPtr)) =>
                   (s.outcome = "Panic" /\ ~s.live /\ s.freeCalls = 0)
            /\ s.outcome = "Ok" => ~IsNull(s.handle)
            /\ (s.allocCalls = 1 /\ s.natStatus # 0) =>
                   /\ s.fromPtrCalls = 0
                   /\ s.outcome = "Err"
                   /\ s.err = UhdErrorOfStatus(s.natStatus)
                   /\ ~s.live
                   /\ s.freeCalls = 0

\* C2 witness: open_with_args panicked in from_ptr on the null pointer of a
\* successful make, and to_handle returned the error of a failed make.
C2_Witness ==
    \E h, g \in Slots :
        /\ handles[h].ctor = "open_with_args" /\ handles[h].outcome = "Panic"
        /\ handles[h].fromPtrCalls = 1 /\ IsNull(handles[h].natPtr)
        /\ handles[g].ctor = "to_handle" /\ handles[g].outcome = "Err"

\* C3: every handle that has been constructed and not yet dropped holds a
\* non-null pointer and has not been freed, whatever accessors have been
\* called on it; and deref / deref_mut never reach the "handle is null" panic.
C3_LiveHandleNonNull ==
    /\ \A h \in Slots :
          handles[h].live =>
              /\ handles[h].outcome = "Ok"
              /\ ~IsNull(handles[h].handle)
              /\ handles[h].freeCalls = 0
    /\ hlast.op \in {"deref", "deref_mut", "as_ptr", "as_mut_ptr"} =>
          /\ hlast.ret.tag = "Ok"
          /\ hlast.ret.val = handles[hlast.slot].handle

\* C3 witness: deref_mut has returned on a handle that is still live, beside
\* a second live handle.
C3_Witness ==
    /\ hlast.op = "deref_mut"
    /\ hlast.ret.tag = "Ok"
    /\ \A h \in Slots : handles[h].live

(***************************************************************************)
(* Claims about Usrp::channel.                                             *)
(***************************************************************************)
\* The count of the call's own direction, on the device when it was called.
LiveCount(c) == IF c.channel.dir = "Rx" THEN c.rxAt ELSE c.txAt

\* C4 as stated: channel(dir, i) returns the Index error whenever i is not
\* below the live count of that direction, and a configuration object only
\* when i is below it.
C4_IndexErrorWheneverOutOfRange ==
    chanCall.called =>
        /\ chanCall.ret.tag # "Panic"
        /\ chanCall.channel.index >= LiveCount(chanCall) =>
               (chanCall.ret.tag = "Err" /\ chanCall.ret.val = "Index")
        /\ chanCall.ret.tag = "Ok" =>
               chanCall.channel.index < LiveCount(chanCall)

\* C4 amended: when the count query of that call succeeds, channel(dir, i)
\* returns the Index error whenever i is not below the live count of the same
\* direction and the configuration object of (dir, i) whenever it is below;
\* when the count query fails, the query's error is returned; it never
\* panics and never returns a configuration object for an index that is not
\* below the live count.
C4_ChannelChecksLiveCount ==
    chanCall.called =>
        /\ chanCall.ret.tag \in {"Ok", "Err"}
        /\ (chanCall.status = 0 /\ chanCall.channel.index >= LiveCount(chanCall)) =>
               (chanCall.ret.tag = "Err" /\ chanCall.ret.val = "Index")
        /\ (chanCall.status = 0 /\ chanCall.channel.index < LiveCount(chanCall)) =>
               /\ chanCall.ret.tag = "Ok"
               /\ chanCall.ret.val = ChannelConfigNew(chanCall.channel)
        /\ chanCall.status # 0 =>
               /\ chanCall.ret.tag = "Err"
               /\ chanCall.ret.val = UhdErrorOfStatus(chanCall.status)
        /\ chanCall.ret.tag = "Ok" =>
               chanCall.channel.index < LiveCount(chanCall)

\* C4 witness: after a reconfiguration that left the two directions with
\* different counts, a Tx index that is within the Rx count but not within
\* the Tx count was refused with the Index error.
C4_Witness ==
    /\ chanCall.called
    /\ chanCall.channel.dir = "Tx"
    /\ chanCall.status = 0
    /\ chanCall.txAt <= chanCall.channel.index
    /\ chanCall.channel.index < chanCall.rxAt
    /\ chanCall.ret.tag = "Err"
    /\ chanCall.ret.val = "Index"
    /\ txCount # chanCall.txAt

(***************************************************************************)
(* Claims about FfiString.                                                 *)
(***************************************************************************)
\* C5: for every capacity N >= 1 and every text s of encoded length < N, a
\* buffer made by with_capacity(N) into which s and a NUL terminator have
\* been written returns exactly s from to_string().
C5_RoundTrip ==
    (fsText.written /\ fsOut.tag # "NoCall") =>
        /\ Len(fsText.text) < Len(fsBuf)
        /\ fsOut.tag = "Ok"
        /\ fsOut.val = fsText.text

\* C5 witness: the two-byte text U+00E9 written into a buffer of capacity 3
\* has been read back.
C5_Witness ==
    /\ Len(fsBuf) = 3
    /\ fsText = TextOf(<<195, 169>>)
    /\ fsOut.tag = "Ok"

\* C6: to_string() returns an error whenever the buffer holds no NUL within
\* its capacity, and whenever the bytes before the first NUL are not valid
\* UTF-8.
C6_ToStringRejectsBadBuffers ==
    (fsBuf # <<>> /\ fsOut.tag # "NoCall") =>
        /\ ~HasNul(fsBuf) => fsOut.tag = "Err"
        /\ (HasNul(fsBuf) /\ ~Utf8Valid(SubSeq(fsBuf, 1, FirstNul(fsBuf) - 1))) =>
               fsOut.tag = "Err"

(***************************************************************************)
(* Claims about FfiStringVec.                                              *)
(***************************************************************************)
\* C7, read for runs in which no native call reported a failure: after any
\* pushes, get(i) returns None for every i not below the number of pushed
\* values, and Some of exactly the i-th pushed value for every i below it.
C7_GetReturnsPushed ==
    (vecOut.op = "get" /\ vecOut.nativeOk /\ vecItems = vecPushed) =>
        /\ vecOut.index >= Len(vecPushed) => vecOut.ret.tag = "None"
        /\ vecOut.index < Len(vecPushed) =>
               /\ vecOut.ret.tag = "Some"
               /\ vecOut.ret.val = vecPushed[vecOut.index + 1]

\* C8, read for runs in which no native call reported a failure: after any
\* pushes, to_vec() completes and returns exactly the pushed values, in
\* order.
C8_ToVecReturnsPushed ==
    (vecOut.op = "to_vec" /\ vecOut.nativeOk /\ vecItems = vecPushed) =>
        /\ vecOut.ret.tag = "Ok"
        /\ vecOut.ret.val = vecPushed

\* C12: no native failure in an FfiStringVec operation is swallowed: whenever
\* the native call behind new, push or len reports a failure status, the
\* caller receives an error value (new does not panic, push does not return
\* normally, len does not return a count), and get returns None only for an
\* index that is not below the number of strings the native vector holds.
C12_NoNativeFailureSwallowed ==
    /\ (vecOut.op \in {"new", "push", "len"} /\ ~vecOut.nativeOk) =>
           vecOut.ret.tag = "Err"
    /\ (vecOut.op = "get" /\ vecOut.ret.tag = "None") =>
           vecOut.index >= Len(vecItems)

(***************************************************************************)
(* Claims about RxMetadata.                                                *)
(***************************************************************************)
\* The ErrorCode the claim gives a native code: its variant, or the
\* catch-all Unknown.
ClaimedErrorCode(code) ==
    IF TryFromPrimitive(code).tag = "Ok" THEN TryFromPrimitive(code).val ELSE "Unknown"

\* C9: whenever the native getter succeeds, error_code() returns an
\* ErrorCode value: the variant of a known native code, the catch-all Unknown
\* for any other; never a call failure, never a panic.
C9_ErrorCodeIsAValue ==
    (metaOut.op = "error_code" /\ metaOut.st1 = 0) =>
        /\ metaOut.ret.tag = "Ok"
        /\ metaOut.ret.val = ClaimedErrorCode(metaOut.at.code)

\* C10: when the native getters succeed, time_spec() returns Ok(None) if and
\* only if the native metadata has no time spec, and fails with an error when
\* the native metadata has a time spec whose raw components are malformed.
C10_TimeSpecNoneIffAbsent ==
    (metaOut.op = "time_spec" /\ metaOut.st1 = 0 /\ metaOut.st2 = 0) =>
        /\ (metaOut.ret.tag = "Ok" /\ metaOut.ret.val = None) <=> ~metaOut.at.has
        /\ (metaOut.at.has /\ Malformed(metaOut.at.full, metaOut.at.frac)) =>
               metaOut.ret.tag = "Err"

====
